---- MODULE Spec2Model ----
(***************************************************************************)
(* Model of the "bench" command of moleculer-repl (src/src/index.js,       *)
(* lines 180-282): a serial load generator that issues one broker.call at  *)
(* a time, records latency statistics for every outcome and stops on a     *)
(* request count or on a one-shot timer.                                   *)
(*                                                                         *)
(* Time is in milliseconds.  JavaScript runs every callback to completion, *)
(* so each action below is one whole callback (or the command handler).    *)
(***************************************************************************)
EXTENDS Integers, FiniteSets, Sequences, TLC

\* ------------------------------------------------------------------ bounds
\* Largest number of requests a modelled run may issue.
MaxCount == 11

\* ------------------------------------------------------- program constants
DefaultTime == 5            \* seconds, index.js:191
FallbackTime == 60          \* seconds, index.js:212
MsPerSecond == 1000         \* index.js:212
CycleModulus == 10          \* index.js:253
CycleFactor == 1000         \* index.js:253

\* --------------------------------------------------------------- the inputs
\* A raw command-line option: absent, present with a numeric text, or present
\* with a text that is no number.
Absent == [k |-> "absent", v |-> 0]
Given(n) == [k |-> "given", v |-> n]
Text == [k |-> "text", v |-> 0]

\* Values of --num and of --time (seconds) the model tries.
NumOptions == {Absent, Text, Given(0), Given(1), Given(2), Given(5)}
TimeOptions == {Absent, Text, Given(0), Given(1)}

\* args.jsonParams: absent, a well-formed JSON text, or a malformed one.
JsonParams == {"absent", "valid", "malformed"}

\* Latencies (ms) a broker.call may take (an hrtime difference is never exactly
\* 0; the last one outlasts every timer), and how it settles: through the
\* event loop ("io") or in the microtask queue without returning to the
\* event loop ("micro").
Latencies == {10, 20, 30, 60000}
Kinds == {"io", "micro"}

\* ------------------------------------------------- JavaScript value helpers
\* A parsed option value: null, a number, or NaN.
Null == [k |-> "null", v |-> 0]
Num(n) == [k |-> "num", v |-> n]
NaN == [k |-> "nan", v |-> 0]

\* `args.options.x != null ? Number(args.options.x) : null`
OptNumber(raw) ==
    CASE raw.k = "absent" -> Null
      [] raw.k = "text" -> NaN
      [] OTHER -> Num(raw.v)

\* JavaScript truthiness of null / a number / NaN: null, 0 and NaN are falsy.
Truthy(x) == x.k = "num" /\ x.v # 0

\* `let minTime;` : not yet assigned.  Durations are never negative.
Unset == -1


\* ----------------------------------------------------- the command's logic
\* Mutant of ParseThrows: the parse error swallowed.
ParseNeverThrows(json) == FALSE

\* `if (typeof(args.jsonParams) == "string") payload = JSON.parse(...)`
\* throws a SyntaxError on a malformed text.
ParseThrows(json) == json = "malformed"

\* Mutant of TimeAfterDefault: the default applied only to absent options.
TimeAfterDefaultNullOnly(it, tm) ==
    IF it.k = "null" /\ tm.k = "null" THEN Num(DefaultTime) ELSE tm

\* `if (!iterate && !time) time = 5;`
TimeAfterDefault(it, tm) ==
    IF ~Truthy(it) /\ ~Truthy(tm) THEN Num(DefaultTime) ELSE tm

\* Mutant of TimerDelay: the 5 s default used where the 60 s fallback belongs.
TimerDelayNoFallback(tm) ==
    (IF Truthy(tm) THEN tm.v ELSE DefaultTime) * MsPerSecond

\* Mutant of TimerDelay: the delay passed in seconds.
TimerDelaySeconds(tm) == IF Truthy(tm) THEN tm.v ELSE FallbackTime

\* The delay of `setTimeout(() => timeout = true, (time ? time : 60) * 1000)`
TimerDelay(tm) == (IF Truthy(tm) THEN tm.v ELSE FallbackTime) * MsPerSecond

\* Mutant of ShouldStop: `>` for `>=`.
ShouldStopStrict(to, it, rc) == to \/ (Truthy(it) /\ rc > it.v)

\* Mutant of ShouldStop: the count bound tested even when iterate is falsy.
ShouldStopUnguarded(to, it, rc) == to \/ rc >= it.v

\* Mutant of ShouldStop: the timer ignored when a count bound is set.
ShouldStopCountFirst(to, it, rc) == IF Truthy(it) THEN rc >= it.v ELSE to

\* `if (timeout || (iterate && resCount >= iterate))`
ShouldStop(to, it, rc) == to \/ (Truthy(it) /\ rc >= it.v)

\* Mutant of FastCycle: the test read as count % (10 * 1000).
FastCycleEveryTenThousand(c) == (c % (CycleModulus * CycleFactor)) # 0

\* `if (count % 10 * 1000)` : % and * associate to the left.
FastCycle(c) == ((c % CycleModulus) * CycleFactor) # 0

\* Mutant of SyncRequests: the fast cycle's doRequest() call lost.
SyncRequestsNone(c) == 0

\* Number of doRequest() calls made directly by handleResponse when the run
\* continues (the "fast cycle" branch).
SyncRequests(c) == IF FastCycle(c) THEN 1 ELSE 0

\* Mutant of DeferredRequests: the `else` lost, the slow cycle always taken.
DeferredRequestsAlways(c) == 1

\* Number of setImmediate(() => doRequest()) callbacks scheduled by
\* handleResponse when the run continues (the "slow cycle" branch).
DeferredRequests(c) == IF FastCycle(c) THEN 0 ELSE 1

\* Mutant of NextErrorCount: the error not counted.
NextErrorCountNever(ec, err) == ec

\* `if (err) errorCount++`
NextErrorCount(ec, err) == IF err THEN ec + 1 ELSE ec

\* Mutant of NextSumTime: the sum overwritten, not accumulated.
NextSumTimeLast(st, d) == d

\* `sumTime += duration`
NextSumTime(st, d) == st + d

\* Mutant of NextMinTime: the comparison reversed.
NextMinTimeReversed(mn, d) == IF mn = Unset \/ d > mn THEN d ELSE mn

\* `if (minTime == null || duration < minTime) minTime = duration`
NextMinTime(mn, d) == IF mn = Unset \/ d < mn THEN d ELSE mn

\* `if (maxTime == null || duration > maxTime) maxTime = duration`
NextMaxTime(mx, d) == IF mx = Unset \/ d > mx THEN d ELSE mx

\* What printResult(duration) prints, before number formatting: the average
\* is sumTime / resCount and is kept as that pair.
PrintResult(rc, ec, st, mn, mx, duration) ==
    [requestCount |-> rc, errorCount |-> ec, sumTime |-> st,
     minTime |-> mn, maxTime |-> mx, duration |-> duration]

NoReport == PrintResult(0, 0, 0, Unset, Unset, 0)

Max(a, b) == IF a >= b THEN a ELSE b

\* -------------------------------------------------------------- the state
VARIABLES
    phase,          \* "idle", "running", "done" (done() called), "failed" (JSON.parse threw)
    args,           \* the command's arguments: options.num, options.time, jsonParams
    iterate,        \* const iterate
    time,           \* let time
    count,          \* requests issued
    resCount,       \* outcomes recorded
    errorCount,     \* failed outcomes recorded
    sumTime,        \* sum of recorded durations
    minTime,        \* smallest recorded duration, or Unset
    maxTime,        \* largest recorded duration, or Unset
    timeout,        \* let timeout
    timerArmed,     \* setTimeout has been called
    timerDelay,     \* its delay argument
    timerAt,        \* the clock when it was armed
    timerFired,     \* its callback has run
    startTotalTime, \* process.hrtime() at the start of the run
    calls,          \* broker.call promises not yet settled
    immediates,     \* pending setImmediate(() => doRequest()) callbacks
    now,            \* the clock (process.hrtime), ms
    report,         \* what printResult printed
    reports,        \* number of printResult calls
    doneCalls,      \* number of done() calls
    hist,           \* history: how many recorded outcomes had each latency
    failures,       \* history: how many settled calls were rejected
    afterTimeout    \* history: outcomes recorded while timeout was already true

stats == <<resCount, errorCount, sumTime, minTime, maxTime>>
config == <<args, iterate, time>>
timer == <<timerArmed, timerDelay, timerAt, timerFired>>
output == <<report, reports, doneCalls>>
history == <<hist, failures, afterTimeout>>
vars == <<phase, config, count, stats, timeout, timer, startTotalTime, calls,
          immediates, now, output, history>>

Deadline == timerAt + timerDelay

\* A call issued by doRequest(): `count++; const startTime = process.hrtime();
\* return broker.call(...)`.
NewCall(id, t, k) == [id |-> id, start |-> t, kind |-> k]

Init ==
    /\ phase = "idle"
    /\ args = [num |-> Absent, time |-> Absent, jsonParams |-> "absent"]
    /\ iterate = Null
    /\ time = Null
    /\ count = 0
    /\ resCount = 0
    /\ errorCount = 0
    /\ sumTime = 0
    /\ minTime = Unset
    /\ maxTime = Unset
    /\ timeout = FALSE
    /\ timerArmed = FALSE
    /\ timerDelay = 0
    /\ timerAt = 0
    /\ timerFired = FALSE
    /\ startTotalTime = 0
    /\ calls = {}
    /\ immediates = 0
    /\ now = 0
    /\ report = NoReport
    /\ reports = 0
    /\ doneCalls = 0
    /\ hist = [l \in Latencies |-> 0]
    /\ failures = 0
    /\ afterTimeout = 0

\* The command handler `.action((args, done) => {...})`, lines 186-282:
\* parse the options and the payload, arm the timer, issue the first request.
Bench(num, secs, json, k) ==
    /\ phase = "idle"
    /\ args' = [num |-> num, time |-> secs, jsonParams |-> json]
    /\ iterate' = OptNumber(num)
    /\ time' = TimeAfterDefault(OptNumber(num), OptNumber(secs))
    /\ IF ParseThrows(json)
       THEN /\ phase' = "failed"
            /\ UNCHANGED <<count, stats, timeout, timer, startTotalTime, calls,
                           immediates, now, output, history>>
       ELSE /\ phase' = "running"
            /\ timerArmed' = TRUE
            /\ timerDelay' = TimerDelay(time')
            /\ timerAt' = now
            /\ startTotalTime' = now
            /\ count' = count + 1
            /\ calls' = calls \cup {NewCall(count + 1, now, k)}
            /\ UNCHANGED <<stats, timeout, timerFired, immediates, now, output,
                           history>>

\* handleResponse(startTime, err), lines 228-261, run from the .then or the
\* .catch callback of the call c, which settles d ms after it was issued; k is
\* how the next call (if one is issued at once) will settle.
HandleResponse(c, d, err, k) ==
    /\ c \in calls
    /\ c.start + d >= now
    /\ now' = c.start + d
    /\ resCount' = resCount + 1
    /\ errorCount' = NextErrorCount(errorCount, err)
    /\ sumTime' = NextSumTime(sumTime, d)
    /\ minTime' = NextMinTime(minTime, d)
    /\ maxTime' = NextMaxTime(maxTime, d)
    /\ hist' = [hist EXCEPT ![d] = @ + 1]
    /\ failures' = IF err THEN failures + 1 ELSE failures
    /\ afterTimeout' = IF timeout THEN afterTimeout + 1 ELSE afterTimeout
    /\ IF ShouldStop(timeout, iterate, resCount')
       THEN /\ report' = PrintResult(resCount', errorCount', sumTime', minTime',
                                     maxTime', now' - startTotalTime)
            /\ reports' = reports + 1
            /\ doneCalls' = doneCalls + 1
            /\ phase' = "done"
            /\ calls' = calls \ {c}
            /\ UNCHANGED <<count, immediates>>
       ELSE /\ count + SyncRequests(count) <= MaxCount
            /\ count' = count + SyncRequests(count)
            /\ calls' = (calls \ {c}) \cup
                        {NewCall(count + i, now', k) : i \in 1..SyncRequests(count)}
            /\ immediates' = immediates + DeferredRequests(count)
            /\ UNCHANGED <<phase, output>>
    /\ UNCHANGED <<config, timeout, timer, startTotalTime>>

\* `.then(res => { handleResponse(startTime); return res; })`
CallResolved(c, d, k) == HandleResponse(c, d, FALSE, k)

\* `.catch(err => { handleResponse(startTime, err); })`
CallRejected(c, d, k) == HandleResponse(c, d, TRUE, k)

\* The callback of `setImmediate(() => doRequest())`.
RunImmediate(k) ==
    /\ immediates > 0
    /\ count < MaxCount
    /\ immediates' = immediates - 1
    /\ count' = count + 1
    /\ calls' = calls \cup {NewCall(count + 1, now, k)}
    /\ UNCHANGED <<phase, config, stats, timeout, timer, startTotalTime, now,
                   output, history>>

\* The callback of setTimeout: `() => timeout = true`.  It runs once the delay
\* has passed and control is back in the event loop: not while a call that
\* settles in the microtask queue is outstanding.  While the loop waits (for a
\* call, or after the run) the clock advances to the deadline.
TimerFire ==
    /\ timerArmed
    /\ ~timerFired
    /\ \A c \in calls : c.kind = "io"
    /\ \/ calls # {}
       \/ phase = "done"
       \/ now >= Deadline
    /\ now' = Max(now, Deadline)
    /\ timerFired' = TRUE
    /\ timeout' = TRUE
    /\ UNCHANGED <<phase, config, count, stats, timerArmed, timerDelay, timerAt,
                   startTotalTime, calls, immediates, output, history>>

Next ==
    \/ \E num \in NumOptions, secs \in TimeOptions, json \in JsonParams, k \in Kinds :
          Bench(num, secs, json, k)
    \/ \E c \in calls, d \in Latencies, k \in Kinds : CallResolved(c, d, k)
    \/ \E c \in calls, d \in Latencies, k \in Kinds : CallRejected(c, d, k)
    \/ \E k \in Kinds : RunImmediate(k)
    \/ TimerFire

Spec == Init /\ [][Next]_vars

\* ================================================================ properties
RECURSIVE SumOver(_, _)
\* The sum of f[l] * w(l) over the latencies in S, for w = 1 (weigh = FALSE)
\* or w(l) = l (weigh = TRUE).
SumOver(S, weigh) ==
    IF S = {} THEN 0
    ELSE LET l == CHOOSE x \in S : TRUE
         IN (IF weigh THEN l * hist[l] ELSE hist[l]) + SumOver(S \ {l}, weigh)

\* Number of outcomes recorded so far, and the sum of their latencies.
HistCount == SumOver(Latencies, FALSE)
HistSum == SumOver(Latencies, TRUE)

\* The step records an outcome (handleResponse ran).
Recorded == resCount' = resCount + 1

\* The policy's stop condition on the recorded count rc, read from the options.
StopCondition(rc) ==
    timeout \/ (args.num.k = "given" /\ args.num.v # 0 /\ rc >= args.num.v)

\* ---------------------------------------------------------------------- C1
\* C1: at most one broker.call is in flight: count - resCount is 0 or 1 and is
\* the number of unsettled calls; the call in flight is request resCount + 1;
\* a request is issued only in a state where every earlier outcome has been
\* recorded, whether issued from handleResponse or from a setImmediate
\* callback (of which at most one is pending, and then no call is in flight).
C1_InFlightInv ==
    /\ count - resCount \in {0, 1}
    /\ Cardinality(calls) = count - resCount
    /\ \A c \in calls : c.id = resCount + 1
    /\ immediates \in {0, 1}
    /\ immediates = 1 => calls = {}

C1_IssueAfterRecord ==
    count' # count => /\ count' = count + 1
                      /\ resCount' = count
                      /\ calls' = {c \in calls' : c.id = count'}

C1_SingleInFlight == [](C1_InFlightInv) /\ [][C1_IssueAfterRecord]_vars

\* Request 11 was issued from a setImmediate callback after outcome 10.
C1_Witness == count = 11 /\ resCount = 10 /\ calls # {} /\ immediates = 0

\* ---------------------------------------------------------------------- C2
\* C2: the run ends only in a step that records an outcome, and such a step
\* ends it exactly when the timer has fired or a count bound is set and the
\* recorded count has reached it; otherwise the run goes on with one more
\* request issued or deferred.  Reports carry a recorded count >= 1 and
\* nothing is checked before the first request.
C2_StopStep ==
    /\ (phase # "done" /\ phase' = "done") => Recorded
    /\ Recorded =>
          IF StopCondition(resCount')
          THEN phase' = "done" /\ reports' = reports + 1 /\ count' = count
          ELSE /\ phase' = "running" /\ reports' = reports
               /\ (count' = count + 1 /\ immediates' = immediates)
                  \/ (count' = count /\ immediates' = immediates + 1)

C2_ReportInv ==
    /\ reports > 0 => report.requestCount >= 1 /\ report.requestCount = resCount
    /\ count = 0 => reports = 0 /\ phase \in {"idle", "failed"}
    /\ phase = "done" <=> reports > 0

C2_TerminationCheck == [](C2_ReportInv) /\ [][C2_StopStep]_vars

\* Both bounds set, and the timer ended the run before the count was reached.
C2_Witness ==
    /\ phase = "done"
    /\ args.num = Given(5) /\ args.time = Given(1)
    /\ report.requestCount = 3

\* ---------------------------------------------------------------------- C3
\* The recorded outcomes all succeeded and all had latency L.
FixedLatencySuccess(L) ==
    /\ failures = 0
    /\ hist[L] > 0
    /\ \A l \in Latencies \ {L} : hist[l] = 0

\* A finished run started with --num N and no --time.
CountOnlyRunDone(N) ==
    phase = "done" /\ args.num = Given(N) /\ args.time = Absent

OptionSet(raw) == raw.k = "given" /\ raw.v # 0

\* C4 as stated: the timer is armed for the given duration, or for 5000 ms
\* when neither bound is given, and for no other delay.
C4_Original ==
    timerArmed =>
        \/ OptionSet(args.time) /\ timerDelay = args.time.v * MsPerSecond
        \/ /\ ~OptionSet(args.time) /\ ~OptionSet(args.num)
           /\ timerDelay = DefaultTime * MsPerSecond

\* C4 amended: the timer is armed for the given duration; for 5000 ms when
\* neither bound is given; and for 60000 ms when a request count is given
\* without a duration.  Its callback only sets the flag: the calls in flight,
\* the statistics and the run's phase are left as they are.
C4_DelayInv ==
    timerArmed =>
        timerDelay = IF OptionSet(args.time) THEN args.time.v * MsPerSecond
                     ELSE IF OptionSet(args.num) THEN FallbackTime * MsPerSecond
                     ELSE DefaultTime * MsPerSecond

C4_FireStep ==
    timerFired' # timerFired =>
        /\ timeout' /\ timerFired'
        /\ now' >= timerAt + timerDelay
        /\ UNCHANGED <<phase, count, stats, calls, immediates, output>>

C4_TimerDelay == [](C4_DelayInv) /\ [][C4_FireStep]_vars

\* The fallback timer of a count-only run fired while a call was in flight.
C4_Witness ==
    /\ args.num = Given(2) /\ args.time = Absent
    /\ timerFired /\ timerDelay = 60000 /\ calls # {}

\* ---------------------------------------------------------------------- C5
\* C5: 0 <= errorCount <= resCount; resCount outcomes are in the history;
\* once resCount > 0, every recorded latency lies between minTime and
\* maxTime, sumTime is the sum of all recorded latencies (failed ones
\* included) and min * n <= sum <= max * n.
C5_StatsInvariant ==
    /\ 0 <= errorCount /\ errorCount <= resCount
    /\ resCount = HistCount
    /\ resCount > 0 =>
          /\ \A l \in Latencies : hist[l] > 0 => minTime <= l /\ l <= maxTime
          /\ hist[minTime] > 0 /\ hist[maxTime] > 0
          /\ sumTime = HistSum
          /\ minTime * resCount <= sumTime
          /\ sumTime <= maxTime * resCount

\* Failed and successful outcomes of different latencies have been recorded.
C5_Witness ==
    /\ resCount >= 3 /\ errorCount >= 1 /\ errorCount < resCount
    /\ minTime < maxTime /\ hist[20] > 0

\* ---------------------------------------------------------------------- C6
\* The history gained exactly one outcome, of latency d.
RecordedLatency(d) == hist' = [hist EXCEPT ![d] = @ + 1]

\* The outcome recorded by the step was a failure.
RecordedFailure == failures' = failures + 1

Min(a, b) == IF a <= b THEN a ELSE b

\* C6: recording an outcome of latency d adds 1 to the count, 1 to
\* errorCount iff the outcome failed, d to the sum; min becomes d if unset,
\* else min(min, d); max becomes d if unset, else max(max, d).
C6_RecordStep ==
    Recorded =>
        \E d \in Latencies :
            /\ RecordedLatency(d)
            /\ errorCount' = errorCount + (IF RecordedFailure THEN 1 ELSE 0)
            /\ sumTime' = sumTime + d
            /\ minTime' = IF minTime = Unset THEN d ELSE Min(minTime, d)
            /\ maxTime' = IF maxTime = Unset THEN d ELSE Max(maxTime, d)

\* The outcomes success(10), fail(20), success(10), success(10), fail(30),
\* in any order.
ScenarioOutcomes ==
    /\ hist = [l \in Latencies |-> CASE l = 10 -> 3 [] l = 20 -> 1
                                     [] l = 30 -> 1 [] OTHER -> 0]
    /\ failures = 2

\* C6, the scenario: with maxRequests = 5 those outcomes give the report
\* count = 5, errorCount = 2, min = 10, max = 30, avg = 16 (sum = 16 * 5).
C6_ScenarioReport ==
    (phase = "done" /\ args.num = Given(5) /\ ScenarioOutcomes) =>
        /\ report.requestCount = 5
        /\ report.errorCount = 2
        /\ report.minTime = 10
        /\ report.maxTime = 30
        /\ report.sumTime = 16 * report.requestCount

C6_Record == [](C6_ScenarioReport) /\ [][C6_RecordStep]_vars

\* The scenario has run to its report.
C6_Witness ==
    phase = "done" /\ args.num = Given(5) /\ ScenarioOutcomes /\ reports = 1

\* ---------------------------------------------------------------------- C7
\* C7: a rejected call is recorded once, as an error, and the step takes the
\* decision of C2 like any other; the settled call is gone and is not issued
\* again; every issued call is either in flight or recorded exactly once;
\* errorCount counts the rejected calls, so a run whose calls all failed
\* reports errorCount = requestCount.
C7_FailureStep ==
    RecordedFailure =>
        /\ Recorded
        /\ errorCount' = errorCount + 1
        /\ phase' = "done" <=> StopCondition(resCount')
        /\ \A c \in calls' : c.id > resCount'
        /\ \A c \in calls : c \notin calls'

C7_FailureInv ==
    /\ count = resCount + Cardinality(calls)
    /\ errorCount = failures
    /\ (phase = "done" /\ failures = resCount) =>
           report.errorCount = report.requestCount

C7_Failures == [](C7_FailureInv) /\ [][C7_FailureStep]_vars

\* A run of five calls that all failed has stopped on its count.
C7_Witness ==
    /\ phase = "done" /\ args.num = Given(5) /\ ~timeout
    /\ failures = 5 /\ report.errorCount = 5

\* ---------------------------------------------------------------------- C8
\* A finished run started with --time D (D non-zero) and no --num.
DurationOnlyRunDone ==
    phase = "done" /\ args.num = Absent /\ OptionSet(args.time)

\* C8: a duration-only run of D seconds reports an elapsed time of at least
\* D * 1000 ms, and once the run has stopped (which, in such a run, is a
\* check that saw timeout = true) no call is in flight or deferred and no
\* further call is issued.
C8_ElapsedInv ==
    /\ DurationOnlyRunDone =>
           /\ report.duration >= args.time.v * MsPerSecond
           /\ timeout
    /\ phase = "done" => calls = {} /\ immediates = 0

C8_NoIssueAfterStop == phase = "done" => count' = count /\ calls' = calls

C8_Duration == [](C8_ElapsedInv) /\ [][C8_NoIssueAfterStop]_vars

\* A 1 s run stopped after several requests.
C8_Witness ==
    DurationOnlyRunDone /\ report.requestCount >= 3 /\ report.duration >= 1000

\* ---------------------------------------------------------------------- C9
\* C9: the timer's callback leaves the call in flight where it is; the
\* outcome that settles after the flag was set is recorded in the statistics
\* and that same step ends the run with a report that counts it; at most one
\* outcome is recorded after timeout became true.
C9_CooperativeStep ==
    /\ (~timeout /\ timeout') => calls' = calls /\ UNCHANGED <<stats, phase>>
    /\ (timeout /\ Recorded) =>
           /\ \E d \in Latencies : RecordedLatency(d) /\ sumTime' = sumTime + d
           /\ phase' = "done"
           /\ report'.requestCount = resCount + 1
           /\ afterTimeout' = 1

C9_AfterTimeoutInv ==
    /\ afterTimeout \in {0, 1}
    /\ afterTimeout = 1 => phase = "done" /\ timeout

C9_Cooperative == [](C9_AfterTimeoutInv) /\ [][C9_CooperativeStep]_vars

\* The timer fired during the third call of a run bounded both ways; the call
\* was recorded and the run ended there.
C9_Witness ==
    /\ phase = "done" /\ afterTimeout = 1
    /\ args.num = Given(5) /\ report.requestCount = 3
    /\ report.maxTime = 60000

\* --------------------------------------------------------------------- C10
\* C10: with a malformed payload the command fails before the run starts: no
\* call is issued, the timer is not armed, nothing is recorded, no report is
\* printed.
C10_MalformedPayload ==
    args.jsonParams = "malformed" =>
        /\ phase = "failed"
        /\ count = 0 /\ calls = {} /\ immediates = 0
        /\ ~timerArmed /\ ~timeout
        /\ resCount = 0 /\ errorCount = 0 /\ sumTime = 0
        /\ minTime = Unset /\ maxTime = Unset
        /\ reports = 0 /\ doneCalls = 0

\* The command was given a malformed payload and has failed.
C10_Witness == phase = "failed" /\ args.jsonParams = "malformed"

\* --------------------------------------------------------------------- C11
\* The options and latencies tried under fairness: every policy (neither
\* bound, a falsy count, a count, a duration, both) and a short, a longer and
\* a timer-outlasting latency.
LiveNumOptions == {Absent, Given(0), Given(2)}
LiveTimeOptions == {Absent, Given(1)}
LiveLatencies == {10, 30, 60000}

\* Some outstanding call settles: its .then or its .catch callback runs.
Settle ==
    \E c \in calls, d \in LiveLatencies, k \in Kinds :
        CallResolved(c, d, k) \/ CallRejected(c, d, k)

\* A pending setImmediate callback runs.
Immediate == \E k \in Kinds : RunImmediate(k)

LiveNext ==
    \/ \E num \in LiveNumOptions, secs \in LiveTimeOptions, json \in JsonParams,
          k \in Kinds : Bench(num, secs, json, k)
    \/ Settle
    \/ Immediate
    \/ TimerFire

\* The run under the scheduling of the event loop: every issued call
\* eventually settles, a pending setImmediate callback eventually runs, and
\* the timer's callback runs if the loop keeps being in a position to run it.
LiveSpec ==
    /\ Init
    /\ [][LiveNext]_vars
    /\ WF_vars(Settle)
    /\ WF_vars(Immediate)
    /\ SF_vars(TimerFire)

\* The modelled run has issued MaxCount requests and may issue no more, while
\* the timer has had no occasion to fire: the last call settles without
\* returning to the event loop, or a deferred request is pending before the
\* deadline.
RequestCapReached ==
    /\ count = MaxCount
    /\ phase = "running"
    /\ ~timerFired
    /\ \/ \E c \in calls : c.kind = "micro"
       \/ immediates > 0 /\ now < Deadline

\* Reports and done() calls go in pairs, at most one of each, and only a
\* malformed payload makes the command fail: a rejected call never does.
C11_OneReportInv ==
    /\ reports \in {0, 1}
    /\ doneCalls = reports
    /\ reports = 1 <=> phase = "done"
    /\ phase = "failed" => args.jsonParams = "malformed" /\ count = 0
    /\ phase = "running" => calls # {} \/ immediates > 0

Continues == Recorded /\ phase' = "running"

\* The next request was issued by handleResponse itself.
IssuedSynchronously ==
    /\ count' = count + 1
    /\ immediates' = immediates
    /\ \E c \in calls' : c.id = count'

\* The next request was left to a setImmediate callback.
IssueDeferred ==
    /\ count' = count
    /\ immediates' = immediates + 1
    /\ calls' = {}

\* C12 as stated: unless the issued count is a multiple of 10,000 the next
\* request is issued synchronously.
C12_OriginalStep ==
    (Continues /\ count % (CycleModulus * CycleFactor) # 0) => IssuedSynchronously

C12_Original == [][C12_OriginalStep]_vars

\* C12 amended: the next request is deferred through setImmediate when the
\* issued count is a multiple of 10, and issued synchronously otherwise.
C12_DeferStep ==
    Continues => IF count % CycleModulus = 0 THEN IssueDeferred
                 ELSE IssuedSynchronously

C12_DeferEveryTenth == [][C12_DeferStep]_vars

\* The tenth outcome was recorded and request 11 was deferred.
C12_Witness ==
    phase = "running" /\ count = 10 /\ resCount = 10 /\ immediates = 1

\* --------------------------------------------------------------------- C13
\* The option is present but its number is falsy: 0 or NaN.
FalsyOption(raw) == raw.k = "text" \/ (raw.k = "given" /\ raw.v = 0)

\* The option as the run treats it: a falsy one as if absent.
Effective(raw) == IF FalsyOption(raw) THEN Absent ELSE raw

\* The timer's delay and the bound on the count for options that are absent
\* or hold a non-zero number.
DelayOf(num, secs) ==
    IF secs # Absent THEN secs.v * MsPerSecond
    ELSE IF num # Absent THEN FallbackTime * MsPerSecond
    ELSE DefaultTime * MsPerSecond

CountReached(num, rc) == num # Absent /\ rc >= num.v

\* C13: the timer and the run's phase are those of the run with every falsy
\* bound removed.  A run with a falsy --num and no usable --time gets the 5 s
\* timer and issues requests; a run with a falsy --time and a valid --num gets
\* the fallback timer; a report of a run with a falsy --num was stopped by
\* the timer.
C13_FalsyInv ==
    /\ timerArmed => timerDelay = DelayOf(Effective(args.num), Effective(args.time))
    /\ (phase \in {"running", "done"} /\ FalsyOption(args.num)) =>
           /\ count >= 1
           /\ Effective(args.time) = Absent => timerDelay = DefaultTime * MsPerSecond
           /\ phase = "done" => afterTimeout = 1
    /\ (timerArmed /\ FalsyOption(args.time) /\ Effective(args.num) # Absent) =>
           timerDelay = FallbackTime * MsPerSecond

\* A step that records an outcome stops the run exactly as it would with the
\* falsy bounds removed: never on the count when --num is falsy.
C13_FalsyStep ==
    Recorded =>
        /\ phase' = "done" <=>
              (timeout \/ CountReached(Effective(args.num), resCount'))
        /\ (FalsyOption(args.num) /\ ~timeout) => phase' = "running"

C13_FalsyBounds == [](C13_FalsyInv) /\ [][C13_FalsyStep]_vars

\* A run with --num 0 and no --time went on past its first outcomes and was
\* stopped by the 5 s timer.
C13_Witness ==
    /\ phase = "done" /\ args.num = Given(0) /\ args.time = Absent
    /\ timerDelay = 5000 /\ report.requestCount >= 3
    /\ report.duration >= 5000

====
